---- MODULE Spec2Model ----
\* A model of plasmidai's VisionMamba encoder (evo/model/utils_evo/VideoMamba.py)
\* and of the optimizer parameter grouping (src/experimental/optimizers.py).
\*
\* The module holds several specifications over one set of variables:
\*   SpecInit     VisionMamba.__init__: the stochastic-depth schedule and the blocks
\*   SpecInflate  inflate_weight on a conv weight
\*   SpecLoad     load_state_dict (inflation loop, head deletion, apply)
\*   SpecOpt      build_optimizer_and_scheduler's bucketing loop
\*   SpecBlock    Block.forward, fused and unfused, on one input
\*   SpecFwd      VisionMamba.forward_features over the stack
\* Every specification leaves the variables it does not use at None.
EXTENDS Integers, Sequences, FiniteSets, TLC

VARIABLES
    pc,           \* position of the running function
    cfg,          \* constructor / call arguments of the running function
    dpr,          \* __init__: the linspace list
    inter_dpr,    \* __init__: [0.0] + dpr
    drop_path,    \* VisionMamba.drop_path: rate of the model-level DropPath
    layers,       \* VisionMamba.layers: sequence of Block records
    weight_2d,    \* inflate_weight: the pretrained conv weight
    weight_3d,    \* inflate_weight: the value returned
    state_dict,   \* load_state_dict: the checkpoint, a sequence of [k, v] in key order
    state_dict_3d,\* load_state_dict: model.state_dict(), key -> shape
    key_idx,      \* load_state_dict: position of the loop over state_dict.keys()
    applied,      \* load_state_dict: the mapping handed to model.load_state_dict
    param_idx,    \* build_optimizer_and_scheduler: position in named_parameters()
    params,       \* build_optimizer_and_scheduler: the weight-decay bucket
    params_no_wd, \* build_optimizer_and_scheduler: the no-weight-decay bucket
    out_unfused,  \* Block.forward: what the unfused block returned
    out_fused,    \* Block.forward: what the fused block returned
    x,            \* forward_features: the local x
    hidden_states,\* forward_features: the local hidden_states
    residual,     \* forward_features: the local residual, <<>> for None
    trace         \* history: one record per Block.forward call made so far

ctorVars == <<dpr, inter_dpr, drop_path, layers>>
inflVars == <<weight_2d, weight_3d>>
loadVars == <<state_dict, state_dict_3d, key_idx, applied>>
optVars == <<param_idx, params, params_no_wd>>
blockVars == <<out_unfused, out_fused>>
fwdVars == <<x, hidden_states, residual, trace>>
vars == <<pc, cfg, ctorVars, inflVars, loadVars, optVars, blockVars, fwdVars>>

None == "None"

\* ---------------------------------------------------------------- bounds
MaxDepth == 4
MaxTimeDim == 3
MaxParams == 3
MaxLayers == 3

\* ------------------------------------------------------------- rationals
\* Tensor elements and rates are exact rationals [n, d], d > 0, in lowest terms.
Abs(i) == IF i < 0 THEN -i ELSE i

RECURSIVE Gcd(_, _)
Gcd(a, b) == IF b = 0 THEN a ELSE Gcd(b, a % b)

Rat(n, d) ==
    LET g == Gcd(Abs(n), Abs(d))
        s == IF d < 0 THEN -1 ELSE 1
    IN  [n |-> (s * n) \div g, d |-> (s * d) \div g]

Zero == Rat(0, 1)
One == Rat(1, 1)
RatAdd(a, b) == Rat(a.n * b.d + b.n * a.d, a.d * b.d)
RatSub(a, b) == Rat(a.n * b.d - b.n * a.d, a.d * b.d)
RatMul(a, b) == Rat(a.n * b.n, a.d * b.d)
RatDiv(a, b) == Rat(a.n * b.d, a.d * b.n)
RatLeq(a, b) == a.n * b.d <= b.n * a.d
RatLt(a, b) == a.n * b.d < b.n * a.d

\* ------------------------------------------------ VisionMamba.__init__
\* torch.linspace(start, end, steps): steps values from start to end inclusive;
\* a single step yields [start].
linspace(start, end, steps) ==
    [i \in 1..steps |->
        IF steps = 1 THEN start
        ELSE RatAdd(start, RatMul(Rat(i - 1, steps - 1), RatSub(end, start)))]

\* The configured maximum drop-path rates tried (0.1 is the default).
DropPathRates == {Rat(0, 1), Rat(1, 10), Rat(1, 4), Rat(1, 2)}

Configs ==
    [depth : 1..MaxDepth,
     drop_path_rate : DropPathRates,
     fused_add_norm : BOOLEAN,
     rms_norm : BOOLEAN,
     residual_in_fp32 : BOOLEAN]

\* dpr = [x.item() for x in torch.linspace(0, drop_path_rate, depth)]
StochasticDepthDecay(drop_path_rate, depth) == linspace(Zero, drop_path_rate, depth)

\* A mutant of InterDpr: the list handed to the blocks is dpr itself.
InterDprNoShift(d) == d

\* inter_dpr = [0.0] + dpr
InterDpr(d) == <<Zero>> \o d

\* DropPath(p) if p > 0.0 else nn.Identity(): the rate the module applies.
DropPathModule(p) == IF RatLt(Zero, p) THEN p ELSE Zero

\* create_block / Block.__init__ for layer i (0-based); inter is inter_dpr.
create_block(c, i, inter) ==
    [layer_idx |-> i,
     fused_add_norm |-> c.fused_add_norm,
     residual_in_fp32 |-> c.residual_in_fp32,
     norm |-> IF c.rms_norm THEN "RMSNorm" ELSE "LayerNorm",
     drop_path |-> DropPathModule(inter[i + 1])]

InitCtor ==
    /\ pc = "ctor_dpr"
    /\ cfg \in Configs
    /\ dpr = None
    /\ inter_dpr = None
    /\ drop_path = None
    /\ layers = <<>>
    /\ weight_2d = None /\ weight_3d = None
    /\ state_dict = None /\ state_dict_3d = None /\ key_idx = None /\ applied = None
    /\ param_idx = None /\ params = None /\ params_no_wd = None
    /\ out_unfused = None /\ out_fused = None
    /\ x = None /\ hidden_states = None /\ residual = None /\ trace = None

CtorDpr ==
    /\ pc = "ctor_dpr"
    /\ dpr' = StochasticDepthDecay(cfg.drop_path_rate, cfg.depth)
    /\ pc' = "ctor_inter"
    /\ UNCHANGED <<cfg, inter_dpr, drop_path, layers, inflVars, loadVars, optVars, blockVars, fwdVars>>

CtorInterDpr ==
    /\ pc = "ctor_inter"
    /\ inter_dpr' = InterDpr(dpr)
    /\ drop_path' = DropPathModule(cfg.drop_path_rate)
    /\ pc' = "ctor_layers"
    /\ UNCHANGED <<cfg, dpr, layers, inflVars, loadVars, optVars, blockVars, fwdVars>>

CtorCreateBlock ==
    /\ pc = "ctor_layers"
    /\ Len(layers) < cfg.depth
    /\ layers' = Append(layers, create_block(cfg, Len(layers), inter_dpr))
    /\ UNCHANGED <<pc, cfg, dpr, inter_dpr, drop_path, inflVars, loadVars, optVars, blockVars, fwdVars>>

CtorDone ==
    /\ pc = "ctor_layers"
    /\ Len(layers) = cfg.depth
    /\ pc' = "constructed"
    /\ UNCHANGED <<cfg, ctorVars, inflVars, loadVars, optVars, blockVars, fwdVars>>

NextCtor == CtorDpr \/ CtorInterDpr \/ CtorCreateBlock \/ CtorDone

SpecInit == InitCtor /\ [][NextCtor]_vars

\* C1 (as stated): once constructed, block 0 has rate 0, the last block has
\* exactly the configured maximum rate, and the rates never decrease with the
\* block index.
C1_LastBlockHasMaxRate ==
    pc = "constructed" =>
        /\ layers[1].drop_path = Zero
        /\ layers[cfg.depth].drop_path = cfg.drop_path_rate
        /\ \A i \in 1..(cfg.depth - 1) :
               RatLeq(layers[i].drop_path, layers[i + 1].drop_path)

\* C1 (amended): once constructed, block 0 has rate 0, block i >= 1 has rate
\* r*(i-1)/(depth-1), so the last block has r*(depth-2)/(depth-1) when
\* depth >= 2; the rates never decrease with the block index, and the maximum
\* r itself is the rate of the model-level drop_path of the final stage.
C1_ShiftedSchedule ==
    pc = "constructed" =>
        /\ Len(layers) = cfg.depth
        /\ layers[1].drop_path = Zero
        /\ \A i \in 2..cfg.depth :
               layers[i].drop_path =
                   Rat(cfg.drop_path_rate.n * (i - 2),
                       cfg.drop_path_rate.d * (cfg.depth - 1))
        /\ \A i \in 1..(cfg.depth - 1) :
               RatLeq(layers[i].drop_path, layers[i + 1].drop_path)
        /\ drop_path = cfg.drop_path_rate

\* Witness of C1: a constructed stack of at least three blocks with a positive
\* maximum rate, whose last block carries a positive rate below the maximum.
C1_Witness ==
    /\ pc = "constructed"
    /\ cfg.depth >= 3
    /\ RatLt(Zero, layers[cfg.depth].drop_path)
    /\ RatLt(layers[cfg.depth].drop_path, cfg.drop_path_rate)

\* -------------------------------------------------------------- tensors
\* A tensor is [shape, data]: data maps every index tuple (1-based here, the
\* code's index k is k+1) to its element.
RECURSIVE Indices(_)
Indices(shape) ==
    IF shape = <<>> THEN {<<>>}
    ELSE {<<i>> \o rest : i \in 1..Head(shape), rest \in Indices(Tail(shape))}

Tensor(shape, f(_)) == [shape |-> shape, data |-> [ix \in Indices(shape) |-> f(ix)]]

\* torch.zeros(*shape)
zeros(shape) == Tensor(shape, LAMBDA ix : Zero)

\* t.unsqueeze(2): a new axis of size 1 at position 2 (0-based).
unsqueeze2(t) ==
    Tensor(<<t.shape[1], t.shape[2], 1>> \o SubSeq(t.shape, 3, Len(t.shape)),
           LAMBDA ix : t.data[<<ix[1], ix[2]>> \o SubSeq(ix, 4, Len(ix))])

\* t.repeat(1, 1, time_dim, 1, 1) on a 5-d tensor: axis 2 is tiled time_dim times.
repeat_time(t, time_dim) ==
    Tensor([t.shape EXCEPT ![3] = t.shape[3] * time_dim],
           LAMBDA ix : t.data[[ix EXCEPT ![3] = ((ix[3] - 1) % t.shape[3]) + 1]])

\* A mutant of MiddleIdx: the middle taken as (time_dim - 1) // 2.
MiddleIdxLow(time_dim) == (time_dim - 1) \div 2

\* middle_idx = time_dim // 2
MiddleIdx(time_dim) == time_dim \div 2

\* t[:, :, middle_idx, :, :] = w
set_time_slice(t, middle_idx, w) ==
    Tensor(t.shape,
           LAMBDA ix : IF ix[3] = middle_idx + 1
                       THEN w.data[<<ix[1], ix[2], ix[4], ix[5]>>]
                       ELSE t.data[ix])

\* A mutant of div_scalar: the division is left out.
div_scalar_skipped(t, n) == t

\* t / n
div_scalar(t, n) == Tensor(t.shape, LAMBDA ix : RatDiv(t.data[ix], Rat(n, 1)))

inflate_center(w, time_dim) ==
    set_time_slice(repeat_time(unsqueeze2(zeros(w.shape)), time_dim),
                   MiddleIdx(time_dim), w)

inflate_replicate(w, time_dim) ==
    div_scalar(repeat_time(unsqueeze2(w), time_dim), time_dim)

\* inflate_weight(weight_2d, time_dim, center), on a conv weight (out, in, kh, kw).
inflate_weight(w, time_dim, center) ==
    IF center THEN inflate_center(w, time_dim) ELSE inflate_replicate(w, time_dim)

\* The image-pretrained conv weights (out, in, kh, kw) tried, and their elements.
Shapes2D == {<<1, 1, 1, 1>>, <<1, 1, 1, 2>>, <<2, 1, 1, 1>>, <<1, 2, 1, 1>>, <<1, 1, 2, 1>>}
WeightVals == {Rat(-1, 2), Zero, Rat(3, 1)}
Weights2D == UNION {[shape : {s}, data : [Indices(s) -> WeightVals]] : s \in Shapes2D}

InitInflate ==
    /\ pc = "inflate"
    /\ cfg \in [time_dim : 1..MaxTimeDim, center : BOOLEAN]
    /\ weight_2d \in Weights2D
    /\ weight_3d = None
    /\ dpr = None /\ inter_dpr = None /\ drop_path = None /\ layers = None
    /\ state_dict = None /\ state_dict_3d = None /\ key_idx = None /\ applied = None
    /\ param_idx = None /\ params = None /\ params_no_wd = None
    /\ out_unfused = None /\ out_fused = None
    /\ x = None /\ hidden_states = None /\ residual = None /\ trace = None

InflateCenter ==
    /\ pc = "inflate"
    /\ cfg.center
    /\ weight_3d' = inflate_weight(weight_2d, cfg.time_dim, cfg.center)
    /\ pc' = "inflated"
    /\ UNCHANGED <<cfg, weight_2d, ctorVars, loadVars, optVars, blockVars, fwdVars>>

InflateReplicate ==
    /\ pc = "inflate"
    /\ ~cfg.center
    /\ weight_3d' = inflate_weight(weight_2d, cfg.time_dim, cfg.center)
    /\ pc' = "inflated"
    /\ UNCHANGED <<cfg, weight_2d, ctorVars, loadVars, optVars, blockVars, fwdVars>>

NextInflate == InflateCenter \/ InflateReplicate

SpecInflate == InitInflate /\ [][NextInflate]_vars

\* The shape inflate_weight must return: a temporal axis of size time_dim at
\* position 2.
InflatedShape(s, time_dim) == <<s[1], s[2], time_dim, s[3], s[4]>>

\* C6: with center=true the result has a temporal axis of size time_dim, its
\* slice at index time_dim // 2 equals the input and every other slice is zero.
C6_CenterSlice ==
    (pc = "inflated" /\ cfg.center) =>
        /\ weight_3d.shape = InflatedShape(weight_2d.shape, cfg.time_dim)
        /\ \A ix \in Indices(weight_2d.shape) : \A k \in 0..(cfg.time_dim - 1) :
               weight_3d.data[<<ix[1], ix[2], k + 1, ix[3], ix[4]>>] =
                   IF k = cfg.time_dim \div 2 THEN weight_2d.data[ix] ELSE Zero

\* Witness of C6: a centred inflation to an even number of at least two slices
\* of a weight with a nonzero element.
C6_Witness ==
    /\ pc = "inflated" /\ cfg.center /\ cfg.time_dim = 2
    /\ \E ix \in Indices(weight_2d.shape) : weight_2d.data[ix] # Zero

RECURSIVE SumOver(_, _)
SumOver(f, n) == IF n = 0 THEN Zero ELSE RatAdd(SumOver(f, n - 1), f[n])

\* C7: with center=false every temporal slice equals the input divided by
\* time_dim, and the sum of the slices along the temporal axis is the input.
C7_ReplicateAverages ==
    (pc = "inflated" /\ ~cfg.center) =>
        /\ weight_3d.shape = InflatedShape(weight_2d.shape, cfg.time_dim)
        /\ \A ix \in Indices(weight_2d.shape) :
               LET slice == [k \in 1..cfg.time_dim |->
                                weight_3d.data[<<ix[1], ix[2], k, ix[3], ix[4]>>]]
               IN  /\ \A k \in 1..cfg.time_dim :
                          RatMul(slice[k], Rat(cfg.time_dim, 1)) = weight_2d.data[ix]
                   /\ SumOver(slice, cfg.time_dim) = weight_2d.data[ix]

\* Witness of C7: a replicated inflation to three slices of a weight with an
\* element that three does not divide.
C7_Witness ==
    /\ pc = "inflated" /\ ~cfg.center /\ cfg.time_dim = 3
    /\ \E ix \in Indices(weight_2d.shape) : weight_2d.data[ix] = Rat(-1, 2)

\* ------------------------------------------------------- load_state_dict
\* A dict is a sequence of [k, v] entries in insertion order.
Keys(d) == {d[i].k : i \in 1..Len(d)}

\* del d[key]
Del(d, key) == SelectSeq(d, LAMBDA e : e.k # key)

KeyOrder == <<"patch_embed.proj.weight", "head.weight", "pos_embed", "head.bias">>

Reverse(s) == [i \in 1..Len(s) |-> s[Len(s) + 1 - i]]

\* The tensors a checkpoint may hold under each key, each choice <<tensor>>, or
\* <<>> when the key is absent.
\* The conv weight is an image-pretrained (out, in, kh, kw) weight.
ConvWeight == Tensor(<<1, 1, 1, 2>>, LAMBDA ix : Rat(ix[4] + 1, 1))
Vec(n) == Tensor(<<n>>, LAMBDA ix : Rat(ix[1], 1))
PosEmbed(t) == Tensor(<<1, t, 1>>, LAMBDA ix : Rat(ix[2], 2))

CkptChoices ==
    [k \in {KeyOrder[i] : i \in 1..Len(KeyOrder)} |->
        CASE k = "patch_embed.proj.weight" -> {<<>>, <<ConvWeight>>}
          [] k = "pos_embed" -> {<<>>, <<PosEmbed(2)>>, <<PosEmbed(3)>>}
          [] k = "head.weight" -> {<<>>, <<Vec(2)>>}
          [] k = "head.bias" -> {<<>>, <<Vec(1)>>}]

\* The shapes the live model may hold under each key, each choice <<shape>>, or
\* <<>> when the model has no such parameter.
LiveChoices ==
    [k \in {"patch_embed.proj.weight", "pos_embed"} |->
        IF k = "pos_embed" THEN {<<>>, <<<<1, 2, 1>>>>}
        ELSE {<<>>, <<<<1, 1, 1, 2>>>>, <<<<2, 1, 1, 2>>>>}
                 \cup {<<<<1, 1, t, 1, 2>>>> : t \in 1..MaxTimeDim}]

\* The checkpoint with the chosen tensors, its keys in the given order.
MakeDict(order, choice) ==
    LET present == SelectSeq(order, LAMBDA k : choice[k] # <<>>)
    IN  [i \in 1..Len(present) |-> [k |-> present[i], v |-> choice[present[i]][1]]]

MakeLive(choice) ==
    [k \in {j \in DOMAIN choice : choice[j] # <<>>} |-> choice[k][1]]

\* k in state_dict_3d.keys() and state_dict[k].shape != state_dict_3d[k].shape
ShapeDiffers(k, v, live) == k \in DOMAIN live /\ v.shape # live[k]

\* A mutant of TooFewDims: rank-4 parameters are ignored as well.
TooFewDimsUpTo4(shape) == Len(shape) <= 4

\* len(state_dict_3d[k].shape) <= 3
TooFewDims(shape) == Len(shape) <= 3

InitLoad ==
    /\ pc = "load_loop"
    /\ \E order \in {KeyOrder, Reverse(KeyOrder)}, center \in BOOLEAN :
       \E ck \in [DOMAIN CkptChoices -> UNION {CkptChoices[k] : k \in DOMAIN CkptChoices}] :
       \E lv \in [DOMAIN LiveChoices -> UNION {LiveChoices[k] : k \in DOMAIN LiveChoices}] :
          /\ \A k \in DOMAIN ck : ck[k] \in CkptChoices[k]
          /\ \A k \in DOMAIN lv : lv[k] \in LiveChoices[k]
          /\ cfg = [center |-> center, checkpoint |-> MakeDict(order, ck)]
          /\ state_dict = MakeDict(order, ck)
          /\ state_dict_3d = MakeLive(lv)
    /\ key_idx = 1
    /\ applied = [called |-> FALSE, mapping |-> <<>>]
    /\ param_idx = None /\ params = None /\ params_no_wd = None
    /\ out_unfused = None /\ out_fused = None
    /\ x = None /\ hidden_states = None /\ residual = None /\ trace = None
    /\ dpr = None /\ inter_dpr = None /\ drop_path = None /\ layers = None
    /\ weight_2d = None /\ weight_3d = None

\* An iteration whose key is not in the model or whose shapes agree.
LoadKeep ==
    /\ pc = "load_loop" /\ key_idx <= Len(state_dict)
    /\ ~ShapeDiffers(state_dict[key_idx].k, state_dict[key_idx].v, state_dict_3d)
    /\ key_idx' = key_idx + 1
    /\ UNCHANGED <<pc, cfg, state_dict, state_dict_3d, applied, ctorVars, inflVars, optVars, blockVars, fwdVars>>

\* print(f"Ignore: {k}"); continue
LoadIgnore ==
    /\ pc = "load_loop" /\ key_idx <= Len(state_dict)
    /\ ShapeDiffers(state_dict[key_idx].k, state_dict[key_idx].v, state_dict_3d)
    /\ TooFewDims(state_dict_3d[state_dict[key_idx].k])
    /\ key_idx' = key_idx + 1
    /\ UNCHANGED <<pc, cfg, state_dict, state_dict_3d, applied, ctorVars, inflVars, optVars, blockVars, fwdVars>>

\* state_dict[k] = inflate_weight(state_dict[k], time_dim, center=center)
LoadInflate ==
    /\ pc = "load_loop" /\ key_idx <= Len(state_dict)
    /\ ShapeDiffers(state_dict[key_idx].k, state_dict[key_idx].v, state_dict_3d)
    /\ ~TooFewDims(state_dict_3d[state_dict[key_idx].k])
    /\ LET time_dim == state_dict_3d[state_dict[key_idx].k][3]
       IN  state_dict' = [state_dict EXCEPT ![key_idx].v =
                             inflate_weight(@, time_dim, cfg.center)]
    /\ key_idx' = key_idx + 1
    /\ UNCHANGED <<pc, cfg, state_dict_3d, applied, ctorVars, inflVars, optVars, blockVars, fwdVars>>

LoadLoopEnd ==
    /\ pc = "load_loop" /\ key_idx > Len(state_dict)
    /\ pc' = "del_head_weight"
    /\ UNCHANGED <<cfg, loadVars, ctorVars, inflVars, optVars, blockVars, fwdVars>>

\* del state_dict["head.weight"]
DelHeadWeight ==
    /\ pc = "del_head_weight"
    /\ "head.weight" \in Keys(state_dict)
    /\ state_dict' = Del(state_dict, "head.weight")
    /\ pc' = "del_head_bias"
    /\ UNCHANGED <<cfg, state_dict_3d, key_idx, applied, ctorVars, inflVars, optVars, blockVars, fwdVars>>

\* del of a missing key raises KeyError.
DelHeadWeightKeyError ==
    /\ pc = "del_head_weight"
    /\ "head.weight" \notin Keys(state_dict)
    /\ pc' = "raised"
    /\ UNCHANGED <<cfg, loadVars, ctorVars, inflVars, optVars, blockVars, fwdVars>>

\* del state_dict["head.bias"]
DelHeadBias ==
    /\ pc = "del_head_bias"
    /\ "head.bias" \in Keys(state_dict)
    /\ state_dict' = Del(state_dict, "head.bias")
    /\ pc' = "apply"
    /\ UNCHANGED <<cfg, state_dict_3d, key_idx, applied, ctorVars, inflVars, optVars, blockVars, fwdVars>>

DelHeadBiasKeyError ==
    /\ pc = "del_head_bias"
    /\ "head.bias" \notin Keys(state_dict)
    /\ pc' = "raised"
    /\ UNCHANGED <<cfg, loadVars, ctorVars, inflVars, optVars, blockVars, fwdVars>>

\* model.load_state_dict(state_dict, strict=False): missing and unexpected keys
\* are tolerated, a size mismatch of a shared key is a RuntimeError.
SizeMismatch(d, live) ==
    \E i \in 1..Len(d) : d[i].k \in DOMAIN live /\ d[i].v.shape # live[d[i].k]

ModelLoadStateDict ==
    /\ pc = "apply"
    /\ ~SizeMismatch(state_dict, state_dict_3d)
    /\ applied' = [called |-> TRUE, mapping |-> state_dict]
    /\ pc' = "done"
    /\ UNCHANGED <<cfg, state_dict, state_dict_3d, key_idx, ctorVars, inflVars, optVars, blockVars, fwdVars>>

ModelLoadStateDictSizeMismatch ==
    /\ pc = "apply"
    /\ SizeMismatch(state_dict, state_dict_3d)
    /\ applied' = [called |-> TRUE, mapping |-> state_dict]
    /\ pc' = "raised"
    /\ UNCHANGED <<cfg, state_dict, state_dict_3d, key_idx, ctorVars, inflVars, optVars, blockVars, fwdVars>>

NextLoad ==
    \/ LoadKeep \/ LoadIgnore \/ LoadInflate \/ LoadLoopEnd
    \/ DelHeadWeight \/ DelHeadWeightKeyError
    \/ DelHeadBias \/ DelHeadBiasKeyError
    \/ ModelLoadStateDict \/ ModelLoadStateDictSizeMismatch

SpecLoad == InitLoad /\ [][NextLoad]_vars

\* C2: load_state_dict never raises, whichever of "head.weight" and "head.bias"
\* the checkpoint holds, and the mapping handed to model.load_state_dict holds
\* neither key.
C2_NeverRaisesHeadDropped ==
    /\ pc # "raised"
    /\ applied.called => Keys(applied.mapping) \cap {"head.weight", "head.bias"} = {}

\* C5: once the loop has visited an entry, the entry is the inflation of the
\* checkpoint's tensor exactly when its key is in the model, the shapes differ
\* and the live parameter has more than 3 dimensions; otherwise (rank <= 3,
\* equal shape, or a key the model lacks) it is the checkpoint's tensor.
C5_InflatedIffRankAbove3 ==
    (pc \in {"load_loop", "del_head_weight"}) =>
        /\ Len(state_dict) = Len(cfg.checkpoint)
        /\ \A i \in 1..Len(state_dict) :
               LET k == cfg.checkpoint[i].k
                   orig == cfg.checkpoint[i].v
                   now == state_dict[i]
                   inflates == /\ k \in DOMAIN state_dict_3d
                               /\ orig.shape # state_dict_3d[k]
                               /\ Len(state_dict_3d[k]) > 3
               IN  /\ now.k = k
                   /\ (i < key_idx /\ inflates) =>
                          /\ now.v # orig
                          /\ now.v = inflate_weight(orig, state_dict_3d[k][3], cfg.center)
                   /\ ~(i < key_idx /\ inflates) => now.v = orig

\* Witness of C5: the loop has ended having inflated one entry and ignored
\* another whose live parameter has rank 3.
C5_Witness ==
    /\ pc = "del_head_weight"
    /\ \E i \in 1..Len(state_dict) : state_dict[i].v # cfg.checkpoint[i].v
    /\ \E i \in 1..Len(state_dict) :
           /\ state_dict[i].k \in DOMAIN state_dict_3d
           /\ Len(state_dict_3d[state_dict[i].k]) = 3
           /\ state_dict[i].v.shape # state_dict_3d[state_dict[i].k]
           /\ state_dict[i].v = cfg.checkpoint[i].v

\* ----------------------------------------- build_optimizer_and_scheduler
\* A parameter name is a string of tokens: identifiers separated by ".".
RECURSIVE split(_)
\* name.split(".")
split(name) ==
    IF name = <<>> THEN <<<<>>>>
    ELSE LET rest == split(Tail(name))
         IN  IF Head(name) = "." THEN <<<<>>>> \o rest
             ELSE <<<<Head(name)>> \o Head(rest)>> \o Tail(rest)

\* A component of a split name is one identifier.
Component(c) == c[1]

\* The module tree: [kind, sub], sub mapping attribute names to submodules.
Leaf(kind) == [kind |-> kind, sub |-> <<>>]
Module(kind, sub) == [kind |-> kind, sub |-> sub]

\* A VisionMamba-like model whose normalization layers have the given kind.
ModelTree(normKind) ==
    Module("VisionMamba",
        [a \in {"embedding", "layers", "norm_f"} |->
            CASE a = "embedding" -> Module("Embedding", [b \in {"proj"} |-> Leaf("Linear")])
              [] a = "layers" ->
                   Module("ModuleList", [b \in {"0"} |->
                       Module("Block", [c \in {"mixer", "norm"} |->
                           IF c = "mixer" THEN Leaf("Mamba") ELSE Leaf(normKind)])])
              [] a = "norm_f" -> Leaf(normKind)])

\* parent = model; for k in attrs: parent = getattr(parent, k)
RECURSIVE GetParent(_, _)
GetParent(module, attrs) ==
    IF attrs = <<>> THEN module
    ELSE GetParent(module.sub[Component(Head(attrs))], Tail(attrs))

\* The parameters named_parameters() may yield, in traversal order: the dotted
\* name and the _no_weight_decay attribute of the parameter ("unset" when the
\* parameter has none).
ParamCatalog ==
    << [name |-> <<"layers", ".", "0", ".", "mixer", ".", "A_log">>, marker |-> "True"],
       [name |-> <<"layers", ".", "0", ".", "mixer", ".", "dt_bias">>, marker |-> "unset"],
       [name |-> <<"layers", ".", "0", ".", "mixer", ".", "bias">>, marker |-> "False"],
       [name |-> <<"layers", ".", "0", ".", "norm", ".", "weight">>, marker |-> "unset"],
       [name |-> <<"norm_f", ".", "bias">>, marker |-> "True"],
       [name |-> <<"pos_embed">>, marker |-> "unset"],
       [name |-> <<"embedding", ".", "proj", ".", "weight">>, marker |-> "False"],
       [name |-> <<"embedding", ".", "proj", ".", "bias">>, marker |-> "unset"] >>

\* The parameter objects: p is the catalog position, the object's identity.
NamedParameters(chosen) ==
    LET ids == SelectSeq([i \in 1..Len(ParamCatalog) |-> i], LAMBDA i : i \in chosen)
    IN  [j \in 1..Len(ids) |->
            [name |-> ParamCatalog[ids[j]].name,
             p |-> [id |-> ids[j], marker |-> ParamCatalog[ids[j]].marker]]]

\* isinstance(parent, (nn.LayerNorm, RMSNorm)): with RMSNorm = None (the import
\* failed) the test raises TypeError unless the first class already matches.
IsInstanceRaises(parent, rmsnorm_imported) ==
    parent.kind # "LayerNorm" /\ ~rmsnorm_imported

IsNorm(parent) == parent.kind \in {"LayerNorm", "RMSNorm"}

\* A mutant of IsBias: any name ending in "bias" counts.
IsBiasSuffix(name) == name \in {"bias", "dt_bias"}

\* name == "bias"
IsBias(name) == name = "bias"

\* getattr(p, "_no_weight_decay", False)
NoWeightDecayAttr(p) == p.marker = "True"

\* A mutant of Bucket: the marker test is a second `if`, not an `elif`.
BucketSecondIf(buckets, parent, name, p) ==
    LET first == IF IsNorm(parent) \/ IsBias(name)
                 THEN [buckets EXCEPT !.params_no_wd = Append(@, p)]
                 ELSE buckets
    IN  IF NoWeightDecayAttr(p)
        THEN [first EXCEPT !.params_no_wd = Append(@, p)]
        ELSE [first EXCEPT !.params = Append(@, p)]

\* The if / elif / else of the loop body, on buckets [params, params_no_wd].
Bucket(buckets, parent, name, p) ==
    IF IsNorm(parent) \/ IsBias(name)
    THEN [buckets EXCEPT !.params_no_wd = Append(@, p)]
    ELSE IF NoWeightDecayAttr(p)
    THEN [buckets EXCEPT !.params_no_wd = Append(@, p)]
    ELSE [buckets EXCEPT !.params = Append(@, p)]

NormKinds == {"LayerNorm", "RMSNorm", "Identity"}

InitOpt ==
    /\ pc = "opt_loop"
    /\ \E chosen \in SUBSET (1..Len(ParamCatalog)), kind \in NormKinds, imported \in BOOLEAN :
          /\ Cardinality(chosen) <= MaxParams
          /\ kind = "RMSNorm" => imported
          /\ cfg = [model |-> ModelTree(kind),
                    named_parameters |-> NamedParameters(chosen),
                    rmsnorm_imported |-> imported]
    /\ param_idx = 1
    /\ params = <<>>
    /\ params_no_wd = <<>>
    /\ dpr = None /\ inter_dpr = None /\ drop_path = None /\ layers = None
    /\ weight_2d = None /\ weight_3d = None
    /\ state_dict = None /\ state_dict_3d = None /\ key_idx = None /\ applied = None
    /\ out_unfused = None /\ out_fused = None
    /\ x = None /\ hidden_states = None /\ residual = None /\ trace = None

\* *attrs, name = name.split(".")
Attrs(dotted) == SubSeq(split(dotted), 1, Len(split(dotted)) - 1)
LastName(dotted) == Component(split(dotted)[Len(split(dotted))])

\* One iteration of the loop that buckets its parameter.
OptBucket ==
    /\ pc = "opt_loop" /\ param_idx <= Len(cfg.named_parameters)
    /\ LET e == cfg.named_parameters[param_idx]
           parent == GetParent(cfg.model, Attrs(e.name))
           b == Bucket([params |-> params, params_no_wd |-> params_no_wd],
                       parent, LastName(e.name), e.p)
       IN  /\ ~IsInstanceRaises(parent, cfg.rmsnorm_imported)
           /\ params' = b.params
           /\ params_no_wd' = b.params_no_wd
    /\ param_idx' = param_idx + 1
    /\ UNCHANGED <<pc, cfg, ctorVars, inflVars, loadVars, blockVars, fwdVars>>

\* One iteration whose isinstance test raises TypeError.
OptTypeError ==
    /\ pc = "opt_loop" /\ param_idx <= Len(cfg.named_parameters)
    /\ IsInstanceRaises(GetParent(cfg.model, Attrs(cfg.named_parameters[param_idx].name)),
                        cfg.rmsnorm_imported)
    /\ pc' = "raised"
    /\ UNCHANGED <<cfg, optVars, ctorVars, inflVars, loadVars, blockVars, fwdVars>>

\* torch.optim.AdamW(params=[{params, wd}, {params_no_wd, 0.0}], ...)
OptBuild ==
    /\ pc = "opt_loop" /\ param_idx > Len(cfg.named_parameters)
    /\ pc' = "opt_built"
    /\ UNCHANGED <<cfg, optVars, ctorVars, inflVars, loadVars, blockVars, fwdVars>>

NextOpt == OptBucket \/ OptTypeError \/ OptBuild

SpecOpt == InitOpt /\ [][NextOpt]_vars

Count(seq, q) == Cardinality({i \in 1..Len(seq) : seq[i] = q})
Traversal == [i \in 1..Len(cfg.named_parameters) |-> cfg.named_parameters[i].p]
Elems(seq) == {seq[i] : i \in 1..Len(seq)}

\* C8: when the optimizer is built, every parameter of the traversal is in
\* exactly one bucket exactly once, the buckets hold nothing else, and each
\* bucket lists its parameters in traversal order.
C8_BucketsPartition ==
    pc = "opt_built" =>
        /\ \A i \in 1..Len(Traversal) :
               Count(params, Traversal[i]) + Count(params_no_wd, Traversal[i]) = 1
        /\ Elems(params) \cup Elems(params_no_wd) = Elems(Traversal)
        /\ Elems(params) \cap Elems(params_no_wd) = {}
        /\ params = SelectSeq(Traversal, LAMBDA q : q \in Elems(params))
        /\ params_no_wd = SelectSeq(Traversal, LAMBDA q : q \in Elems(params_no_wd))

\* Witness of C8: the optimizer is built with both buckets holding at least
\* one parameter, three parameters in all.
C8_Witness ==
    /\ pc = "opt_built"
    /\ params # <<>> /\ params_no_wd # <<>>
    /\ Len(params) + Len(params_no_wd) = 3

\* The module that owns each catalog parameter, read off the model's layout.
OwnerIsNorm(id) ==
    /\ id \in {4, 5}
    /\ cfg.model.sub["norm_f"].kind \in {"LayerNorm", "RMSNorm"}

\* C9: every parameter bucketed so far is in the no-weight-decay bucket exactly
\* when its owner is a LayerNorm or RMSNorm, or the last component of its name
\* is "bias", or it carries the no-decay marker; otherwise it is in the
\* weight-decay bucket.
C9_NoDecayIffNormBiasMarked ==
    pc \in {"opt_loop", "opt_built", "raised"} =>
        \A i \in 1..Len(cfg.named_parameters) :
            LET e == cfg.named_parameters[i]
                noDecay == \/ OwnerIsNorm(e.p.id)
                           \/ e.name[Len(e.name)] = "bias"
                           \/ ParamCatalog[e.p.id].marker = "True"
            IN  IF i < param_idx
                THEN /\ (e.p \in Elems(params_no_wd)) <=> noDecay
                     /\ (e.p \in Elems(params)) <=> ~noDecay
                ELSE e.p \notin Elems(params_no_wd) \cup Elems(params)

\* Witness of C9: the optimizer is built over a model holding a normalization
\* weight, a marked parameter and a parameter named dt_bias.
C9_Witness ==
    /\ pc = "opt_built"
    /\ {1, 2, 4} \subseteq {Traversal[i].id : i \in 1..Len(Traversal)}
    /\ cfg.model.sub["norm_f"].kind = "RMSNorm"

\* ---------------------------------------------------------- activations
\* An activation is [val, shape]. Its value is kept symbolic: a sum, written
\* as the sequence of its summands in the order they were added, each summand
\* a term [op, idx, factor, arg] (an input, a mixer or normalization applied to
\* arg, or arg scaled by a factor). Casts (.to(dtype)) change the numeric type,
\* not the value, and leave an activation as it is.
Term(op, idx, factor, arg) == [op |-> op, idx |-> idx, factor |-> factor, arg |-> arg]
Input(name) == <<Term(name, 0, One, <<>>)>>
Act(val, shape) == [val |-> val, shape |-> shape]

\* a + b, elementwise on equal shapes.
Add(a, b) == Act(a.val \o b.val, a.shape)

\* self.norm(t): LayerNorm or RMSNorm of layer idx (norm_f has idx -1).
Norm(kind, idx, t) == Act(<<Term(kind, idx, One, t.val)>>, t.shape)

\* self.mixer(t): the Mamba mixer of layer idx, an opaque function of its
\* input that returns a sequence of the same shape.
Mixer(idx, t) == Act(<<Term("mixer", idx, One, t.val)>>, t.shape)

\* The factor DropPath(rate) multiplies a sample by: 1 when the module is an
\* Identity (rate 0) or in eval mode; in training 0 when the sample is dropped
\* and 1 / (1 - rate) when it is kept.
DropFactor(rate, training, keep) ==
    IF rate = Zero \/ ~training THEN One
    ELSE IF keep THEN RatDiv(One, RatSub(One, rate))
    ELSE Zero

Scaled(t, factor) ==
    IF factor = One THEN t ELSE Act(<<Term("scale", 0, factor, t.val)>>, t.shape)

\* self.drop_path(t)
DropPath(t, rate, training, keep) == Scaled(t, DropFactor(rate, training, keep))

\* fused_add_norm_fn(x, weight, bias, residual=..., prenorm=..., ...) with
\* fused_add_norm_fn = rms_norm_fn if isinstance(norm, RMSNorm) else layer_norm_fn:
\* adds x into the residual (when there is one) and normalizes the sum; with
\* prenorm it returns <<normalized, sum>>, without only the normalized value.
fused_add_norm_fn(kind, idx, t, res, prenorm) ==
    LET sum == IF res = <<>> THEN t ELSE Add(res[1], t)
    IN  IF prenorm THEN <<Norm(kind, idx, sum), sum>> ELSE <<Norm(kind, idx, sum)>>

\* ---------------------------------------------------------- Block.forward
\* The unfused branch: <<hidden_states, residual>> before the mixer.
AddNormUnfused(self, hidden, res, training, keep) ==
    LET r == IF res # <<>>
             THEN Add(res[1], DropPath(hidden, self.drop_path, training, keep))
             ELSE hidden
    IN  <<Norm(self.norm, self.layer_idx, r), r>>

\* A mutant of FusedOperand: drop_path is applied whether or not there is a residual.
FusedOperandAlwaysDropped(self, hidden, res, training, keep) ==
    DropPath(hidden, self.drop_path, training, keep)

\* hidden_states if residual is None else self.drop_path(hidden_states)
FusedOperand(self, hidden, res, training, keep) ==
    IF res = <<>> THEN hidden ELSE DropPath(hidden, self.drop_path, training, keep)

\* The fused branch: <<hidden_states, residual>> before the mixer.
AddNormFused(self, hidden, res, training, keep) ==
    fused_add_norm_fn(self.norm, self.layer_idx,
                      FusedOperand(self, hidden, res, training, keep), res, TRUE)

\* A mutant of BlockReturn: the block hands back the residual it was given.
BlockReturnStaleResidual(mixed, computed, res) ==
    [hidden_states |-> mixed, residual |-> IF res = <<>> THEN <<computed>> ELSE res]

\* return hidden_states, residual
BlockReturn(mixed, computed, res) ==
    [hidden_states |-> mixed, residual |-> <<computed>>]

\* Block.forward(hidden_states, residual, use_checkpoint): the mixer runs under
\* checkpoint.checkpoint or directly, with the same result.
BlockForward(self, hidden, res, use_checkpoint, training, keep) ==
    LET an == IF ~self.fused_add_norm
              THEN AddNormUnfused(self, hidden, res, training, keep)
              ELSE AddNormFused(self, hidden, res, training, keep)
    IN  BlockReturn(Mixer(self.layer_idx, an[1]), an[2], res)

\* The blocks and inputs tried for one call of Block.forward.
BlockShape == <<1, 2, 2>>
BlockInputs == {Act(Input(n), BlockShape) : n \in {"x", "y"}}

InitBlock ==
    /\ pc = "block"
    /\ \E rate \in DropPathRates, rms \in BOOLEAN, fp32 \in BOOLEAN,
          training \in BOOLEAN, keep \in BOOLEAN, ckpt \in BOOLEAN,
          h \in BlockInputs, r \in {<<>>} \cup {<<a>> : a \in BlockInputs} :
          cfg = [self |-> create_block([fused_add_norm |-> FALSE, rms_norm |-> rms,
                                        residual_in_fp32 |-> fp32], 1, <<Zero, rate>>),
                 hidden_states |-> h, residual |-> r,
                 training |-> training, keep |-> keep, use_checkpoint |-> ckpt]
    /\ out_unfused = <<>>
    /\ out_fused = <<>>
    /\ dpr = None /\ inter_dpr = None /\ drop_path = None /\ layers = None
    /\ weight_2d = None /\ weight_3d = None
    /\ state_dict = None /\ state_dict_3d = None /\ key_idx = None /\ applied = None
    /\ param_idx = None /\ params = None /\ params_no_wd = None
    /\ x = None /\ hidden_states = None /\ residual = None /\ trace = None

\* The block constructed with fused_add_norm=False runs on the input.
BlockRunUnfused ==
    /\ pc = "block" /\ out_unfused = <<>>
    /\ out_unfused' = <<BlockForward([cfg.self EXCEPT !.fused_add_norm = FALSE],
                                     cfg.hidden_states, cfg.residual,
                                     cfg.use_checkpoint, cfg.training, cfg.keep)>>
    /\ UNCHANGED <<pc, cfg, out_fused, ctorVars, inflVars, loadVars, optVars, fwdVars>>

\* The block constructed with fused_add_norm=True runs on the same input.
BlockRunFused ==
    /\ pc = "block" /\ out_fused = <<>>
    /\ out_fused' = <<BlockForward([cfg.self EXCEPT !.fused_add_norm = TRUE],
                                   cfg.hidden_states, cfg.residual,
                                   cfg.use_checkpoint, cfg.training, cfg.keep)>>
    /\ UNCHANGED <<pc, cfg, out_unfused, ctorVars, inflVars, loadVars, optVars, fwdVars>>

NextBlock == BlockRunUnfused \/ BlockRunFused

SpecBlock == InitBlock /\ [][NextBlock]_vars

\* C3: on the same hidden state, residual (absent or present), normalization
\* and stochastic-depth outcome, the fused and the unfused block return the
\* same residual (the hidden state alone when the residual is absent, else
\* residual + drop_path(hidden state)) and the same hidden state, the mixer of
\* the normalization of that residual.
C3_FusedEqualsUnfused ==
    (out_unfused # <<>> /\ out_fused # <<>>) =>
        LET u == out_unfused[1]
            f == out_fused[1]
            factor == DropFactor(cfg.self.drop_path, cfg.training, cfg.keep)
            expected ==
                IF cfg.residual = <<>> THEN cfg.hidden_states.val
                ELSE cfg.residual[1].val \o
                       (IF factor = One THEN cfg.hidden_states.val
                        ELSE <<Term("scale", 0, factor, cfg.hidden_states.val)>>)
        IN  /\ f = u
            /\ f.residual[1].val = expected
            /\ f.hidden_states.val =
                   <<Term("mixer", cfg.self.layer_idx, One,
                          <<Term(cfg.self.norm, cfg.self.layer_idx, One, expected)>>)>>

\* Witness of C3: both modes have run in training with a positive drop-path
\* rate on a present residual, the sample being dropped.
C3_Witness ==
    /\ out_unfused # <<>> /\ out_fused # <<>>
    /\ cfg.training /\ cfg.self.drop_path # Zero /\ ~cfg.keep
    /\ cfg.residual # <<>>

\* ------------------------------------------- VisionMamba.forward_features
\* The raw inputs tried: the flattened first dimension, with the configured
\* tokens per sequence (num_tokens) and embed_dim of the model they are fed to.
FwdGeometries ==
    {[flat |-> 1, num_tokens |-> 1, embed_dim |-> 2],
     [flat |-> 4, num_tokens |-> 2, embed_dim |-> 1],
     [flat |-> 6, num_tokens |-> 3, embed_dim |-> 2],
     [flat |-> 3, num_tokens |-> 2, embed_dim |-> 2]}

\* The drop-path maxima and the dropout rates tried in the forward pass.
FwdRates == {Zero, Rat(1, 2)}

\* The input channel count (output_evo_num_channels) of the models tried.
InChannels == 3

\* self.embedding(x): nn.Linear(input_channels, embed_dim) on (n, input_channels).
Embedding(t, embed_dim) ==
    Act(<<Term("embedding", 0, One, t.val)>>, <<t.shape[1], embed_dim>>)

\* A mutant of Rearrange: the two leading axes come out as (t, b).
RearrangeTransposed(t, seq_len) ==
    Act(t.val, <<seq_len, t.shape[1] \div seq_len, t.shape[2]>>)

\* rearrange(x, "(b t) c -> b t c", t=self.sequence_length)
Rearrange(t, seq_len) ==
    Act(t.val, <<t.shape[1] \div seq_len, seq_len, t.shape[2]>>)

\* self.pos_drop(x): nn.Dropout(p=drop_rate), the identity in eval mode and at
\* rate 0, otherwise an elementwise random mask.
PosDrop(t, drop_rate, training) ==
    IF drop_rate = Zero \/ ~training THEN t
    ELSE Act(<<Term("dropout", 0, drop_rate, t.val)>>, t.shape)

\* The layers __init__ builds for a configuration.
BuildLayers(c) ==
    [i \in 1..c.depth |->
        create_block(c, i - 1, InterDpr(StochasticDepthDecay(c.drop_path_rate, c.depth)))]

InitFwd ==
    /\ pc = "fwd_embed"
    /\ \E depth \in 1..MaxLayers, rate \in FwdRates, fused \in BOOLEAN, rms \in BOOLEAN,
          fp32 \in BOOLEAN, training \in BOOLEAN, ckpt \in BOOLEAN,
          num \in 0..MaxLayers, g \in FwdGeometries, drop_rate \in FwdRates :
          LET c == [depth |-> depth, drop_path_rate |-> rate, fused_add_norm |-> fused,
                    rms_norm |-> rms, residual_in_fp32 |-> fp32]
          IN  /\ cfg = [depth |-> depth, drop_path_rate |-> rate,
                        fused_add_norm |-> fused, rms_norm |-> rms,
                        residual_in_fp32 |-> fp32, training |-> training,
                        drop_rate |-> drop_rate,
                        use_checkpoint |-> ckpt, checkpoint_num |-> num,
                        sequence_length |-> g.num_tokens, embed_dim |-> g.embed_dim,
                        input |-> Act(Input("x"), <<g.flat, InChannels>>)]
              /\ layers = BuildLayers(c)
              /\ drop_path = DropPathModule(rate)
    /\ dpr = None /\ inter_dpr = None
    /\ x = cfg.input
    /\ hidden_states = <<>>
    /\ residual = <<>>
    /\ trace = <<>>
    /\ weight_2d = None /\ weight_3d = None
    /\ state_dict = None /\ state_dict_3d = None /\ key_idx = None /\ applied = None
    /\ param_idx = None /\ params = None /\ params_no_wd = None
    /\ out_unfused = None /\ out_fused = None

fwdOthers == <<dpr, inter_dpr, drop_path, layers, inflVars, loadVars, optVars, blockVars>>

\* x = self.embedding(x); x = rearrange(...); x = self.pos_drop(x);
\* residual = None; hidden_states = x
FwdEmbed ==
    /\ pc = "fwd_embed"
    /\ x.shape[1] % cfg.sequence_length = 0
    /\ x' = PosDrop(Rearrange(Embedding(x, cfg.embed_dim), cfg.sequence_length),
                    cfg.drop_rate, cfg.training)
    /\ hidden_states' = <<x'>>
    /\ residual' = <<>>
    /\ pc' = "fwd_layers"
    /\ UNCHANGED <<cfg, trace, fwdOthers>>

\* rearrange raises when the flattened dimension is no multiple of t.
FwdShapeError ==
    /\ pc = "fwd_embed"
    /\ x.shape[1] % cfg.sequence_length # 0
    /\ pc' = "raised"
    /\ UNCHANGED <<cfg, fwdVars, fwdOthers>>

\* Block.forward: if use_checkpoint the mixer runs under checkpoint.checkpoint,
\* else it is called directly.
MixerMode(use_checkpoint) == IF use_checkpoint THEN "checkpoint" ELSE "direct"

\* A mutant of CheckpointThisLayer: the threshold index is included.
CheckpointThisLayerInclusive(use_checkpoint, idx, checkpoint_num) ==
    use_checkpoint /\ idx <= checkpoint_num

\* self.use_checkpoint and idx < self.checkpoint_num
CheckpointThisLayer(use_checkpoint, idx, checkpoint_num) ==
    use_checkpoint /\ idx < checkpoint_num

\* One call of a layer, with the argument use_checkpoint and the drop-path
\* outcome keep; the call is appended to the history.
LayerCall(use_checkpoint, keep) ==
    LET idx == Len(trace)
        self == layers[idx + 1]
        ret == BlockForward(self, hidden_states[1], residual, use_checkpoint,
                            cfg.training, keep)
    IN  /\ hidden_states' = <<ret.hidden_states>>
        /\ residual' = ret.residual
        /\ trace' = Append(trace,
               [idx |-> idx, use_checkpoint |-> use_checkpoint,
                mixer_mode |-> MixerMode(use_checkpoint),
                residual_in |-> residual, hidden_in |-> hidden_states[1],
                factor |-> IF residual = <<>> THEN One
                           ELSE DropFactor(self.drop_path, cfg.training, keep),
                hidden_out |-> ret.hidden_states, residual_out |-> ret.residual])

\* if self.use_checkpoint and idx < self.checkpoint_num: layer(..., use_checkpoint=True)
FwdLayerCheckpointed ==
    /\ pc = "fwd_layers" /\ Len(trace) < Len(layers)
    /\ CheckpointThisLayer(cfg.use_checkpoint, Len(trace), cfg.checkpoint_num)
    /\ \E keep \in BOOLEAN : LayerCall(TRUE, keep)
    /\ UNCHANGED <<pc, cfg, x, fwdOthers>>

\* else: layer(hidden_states, residual, inference_params=inference_params)
FwdLayer ==
    /\ pc = "fwd_layers" /\ Len(trace) < Len(layers)
    /\ ~CheckpointThisLayer(cfg.use_checkpoint, Len(trace), cfg.checkpoint_num)
    /\ \E keep \in BOOLEAN : LayerCall(FALSE, keep)
    /\ UNCHANGED <<pc, cfg, x, fwdOthers>>

\* The final stage, unfused: add, then norm_f.
FinalUnfused(hidden, res, rate, kind, training, keep) ==
    LET r == IF res = <<>> THEN hidden
             ELSE Add(res[1], DropPath(hidden, rate, training, keep))
    IN  Norm(kind, -1, r)

\* The final stage, fused: fused_add_norm_fn(self.drop_path(hidden_states), ...,
\* residual=residual, prenorm=False).
FinalFused(hidden, res, rate, kind, training, keep) ==
    fused_add_norm_fn(kind, -1, DropPath(hidden, rate, training, keep), res, FALSE)[1]

NormFKind == IF cfg.rms_norm THEN "RMSNorm" ELSE "LayerNorm"

FwdFinalUnfused ==
    /\ pc = "fwd_layers" /\ Len(trace) = Len(layers)
    /\ ~cfg.fused_add_norm
    /\ \E keep \in BOOLEAN :
          /\ hidden_states' = <<FinalUnfused(hidden_states[1], residual, drop_path,
                                             NormFKind, cfg.training, keep)>>
          /\ trace' = Append(trace,
                 [idx |-> Len(layers), use_checkpoint |-> FALSE,
                  mixer_mode |-> "none",
                  residual_in |-> residual, hidden_in |-> hidden_states[1],
                  factor |-> DropFactor(drop_path, cfg.training, keep),
                  hidden_out |-> hidden_states'[1], residual_out |-> <<>>])
    /\ pc' = "fwd_done"
    /\ UNCHANGED <<cfg, x, residual, fwdOthers>>

FwdFinalFused ==
    /\ pc = "fwd_layers" /\ Len(trace) = Len(layers)
    /\ cfg.fused_add_norm
    /\ \E keep \in BOOLEAN :
          /\ hidden_states' = <<FinalFused(hidden_states[1], residual, drop_path,
                                           NormFKind, cfg.training, keep)>>
          /\ trace' = Append(trace,
                 [idx |-> Len(layers), use_checkpoint |-> FALSE,
                  mixer_mode |-> "none",
                  residual_in |-> residual, hidden_in |-> hidden_states[1],
                  factor |-> DropFactor(drop_path, cfg.training, keep),
                  hidden_out |-> hidden_states'[1], residual_out |-> <<>>])
    /\ pc' = "fwd_done"
    /\ UNCHANGED <<cfg, x, residual, fwdOthers>>

NextFwd ==
    \/ FwdEmbed \/ FwdShapeError
    \/ FwdLayerCheckpointed \/ FwdLayer
    \/ FwdFinalUnfused \/ FwdFinalFused

SpecFwd == InitFwd /\ [][NextFwd]_vars

\* C4: when the flattened first dimension is B * T, every layer call and the
\* final stage leave the shape at (B, T, embed_dim), the shape forward returns.
C4_ShapePreserved ==
    LET expected == <<cfg.input.shape[1] \div cfg.sequence_length,
                      cfg.sequence_length, cfg.embed_dim>>
    IN  (pc \in {"fwd_layers", "fwd_done"}) =>
            /\ cfg.input.shape[1] = expected[1] * cfg.sequence_length
            /\ hidden_states[1].shape = expected
            /\ residual # <<>> => residual[1].shape = expected
            /\ \A i \in 1..Len(trace) : trace[i].hidden_out.shape = expected

\* Witness of C4: forward has returned for a stack of three layers on a batch
\* of two sequences of three tokens.
C4_Witness ==
    /\ pc = "fwd_done"
    /\ cfg.depth = 3
    /\ hidden_states[1].shape = <<2, 3, 2>>

\* The sum of the stochastic-depth-scaled outputs of the layer calls 1..n of
\* the history, each scaled by the factor the next call applied to it.
RECURSIVE Contributions(_, _)
Contributions(tr, n) ==
    IF n = 0 THEN <<>>
    ELSE Contributions(tr, n - 1) \o
         (IF tr[n + 1].factor = One THEN tr[n].hidden_out.val
          ELSE <<Term("scale", 0, tr[n + 1].factor, tr[n].hidden_out.val)>>)

\* C10: in unfused mode the residual is absent only on entry to block 0; after
\* block k the residual is the embedded input x plus the scaled mixer outputs of
\* blocks 0..k-1, the hidden state is the mixer of block k on the normalization
\* of that residual, which the block returns as it computed it; the output is
\* norm_f of the last residual plus the scaled last hidden state.
C10_ResidualAccumulates ==
    (pc \in {"fwd_layers", "fwd_done"} /\ ~cfg.fused_add_norm) =>
        /\ \A i \in 1..Len(trace) : (trace[i].residual_in = <<>>) <=> (i = 1)
        /\ \A i \in 1..Len(trace) : i <= cfg.depth =>
               LET k == i - 1
                   res == x.val \o Contributions(trace, k)
               IN  /\ trace[i].residual_out # <<>>
                   /\ trace[i].residual_out[1].val = res
                   /\ trace[i].hidden_out.val =
                          <<Term("mixer", k, One,
                                 <<Term(layers[i].norm, k, One, res)>>)>>
                   /\ i < Len(trace) => trace[i + 1].residual_in = trace[i].residual_out
                   /\ i = Len(trace) => residual = trace[i].residual_out
        /\ pc = "fwd_done" =>
               /\ Len(trace) = cfg.depth + 1
               /\ hidden_states[1].val =
                      <<Term(NormFKind, -1, One,
                             x.val \o Contributions(trace, cfg.depth))>>

\* Witness of C10: an unfused training pass over three blocks has returned,
\* with the output of one block dropped and that of another kept and rescaled.
C10_Witness ==
    /\ pc = "fwd_done" /\ ~cfg.fused_add_norm /\ cfg.depth = 3
    /\ \E i \in 1..Len(trace) : trace[i].factor = Zero
    /\ \E i \in 1..Len(trace) : trace[i].factor \notin {Zero, One}

\* C11: the block at index idx runs its mixer under checkpoint.checkpoint
\* exactly when use_checkpoint is set and idx < checkpoint_num, and directly
\* otherwise; the blocks are called once each in index order, and with
\* use_checkpoint unset no block is checkpointed whatever checkpoint_num is.
C11_CheckpointedIffBelowThreshold ==
    (pc \in {"fwd_layers", "fwd_done"}) =>
        /\ Len(trace) <= cfg.depth + 1
        /\ pc = "fwd_layers" => Len(trace) <= cfg.depth
        /\ pc = "fwd_done" => Len(trace) = cfg.depth + 1
        /\ \A i \in 1..Len(trace) : i <= cfg.depth =>
               /\ trace[i].idx = i - 1
               /\ trace[i].hidden_out.val[1].op = "mixer"
               /\ trace[i].hidden_out.val[1].idx = i - 1
               /\ trace[i].mixer_mode =
                      IF cfg.use_checkpoint /\ i - 1 < cfg.checkpoint_num
                      THEN "checkpoint" ELSE "direct"
               /\ ~cfg.use_checkpoint => trace[i].mixer_mode = "direct"

\* Witness of C11: a pass over three blocks has returned with checkpointing
\* enabled and a threshold of 1 or 2, so that some blocks ran checkpointed and
\* some directly.
C11_Witness ==
    /\ pc = "fwd_done" /\ cfg.depth = 3
    /\ cfg.use_checkpoint /\ cfg.checkpoint_num \in {1, 2}
    /\ \E i \in 1..cfg.depth : trace[i].mixer_mode = "checkpoint"
    /\ \E i \in 1..cfg.depth : trace[i].mixer_mode = "direct"

\* A pass with checkpointing disabled and a positive threshold has returned.
C11_WitnessDisabled ==
    /\ pc = "fwd_done" /\ ~cfg.use_checkpoint /\ cfg.checkpoint_num >= cfg.depth

====
